---- MODULE Spec2Model ----
(***************************************************************************)
(* Verification model of the detection-driven reframing core:              *)
(*   - SceneDetector (src/mickey_test_frame.py), the gap-tolerant scene    *)
(*     segmentation state machine;                                         *)
(*   - calculate_scene_bbox, the per-scene bounds aggregator;              *)
(*   - calculate_crop_coordinates, the aspect-locked crop calculator.      *)
(*                                                                         *)
(* Number conventions.  Python floats are modelled as exact rationals      *)
(* <<n, d>> (d > 0, reduced); int() is truncation toward zero.  Normalised *)
(* box coordinates are carried in thousandths and confidences in           *)
(* hundredths, so 0.15 is 150 and 0.85 is 85.  None is the empty sequence  *)
(* and a present optional value v is <<v>>.                                *)
(***************************************************************************)
EXTENDS Integers, Sequences, FiniteSets, TLC

VARIABLES
    sd,          \* the SceneDetector instance: its five attributes
    last_frame,  \* frame_number of the latest process_frame call (-1: none)
    fed,         \* history: <<frame_number, (x, y, w, h)>> of every call whose
                 \* detection was not None and had confidence >= min_confidence
    absent_run,  \* history: calls without such a detection since the last one with
    n_finalize   \* history: number of finalize calls so far

segVars == <<sd, last_frame, fed, absent_run, n_finalize>>

VARIABLES
    crop_pc,     \* position in the per-frame crop computation of process_video:
                 \* "idle", "scene_bbox", "crop" or "done"
    scene_in,    \* None or <<[scene, frame_width, frame_height]>>: the arguments
                 \* of calculate_scene_bbox
    scene_bbox,  \* None or <<(center_x, center_y, width, height)>>: its result
    crop_args,   \* None or <<the six positional arguments>> of
                 \* calculate_crop_coordinates
    crop_out     \* None or <<its outcome>>: the tuple returned or the error raised

cropVars == <<crop_pc, scene_in, scene_bbox, crop_args, crop_out>>

VARIABLES
    det_pc,      \* position in the decode of one frame: "idle", "decode", "done"
                 \* or "again" (the suppression loop re-run on its own output)
    input_data,  \* the raw output of one frame: one entry per stride level
    thresholds,  \* [conf_thres, iou_thres] of the call, in hundredths
    detections,  \* None or <<the dict returned by extract_detections>>
    nms_again    \* None or <<the detections the re-run loop retains>>

detVars == <<det_pc, input_data, thresholds, detections, nms_again>>

VARIABLES
    pv_pc,       \* position in process_video: "idle", "pass1", "pass2",
                 \* "released" (returned) or "crashed" (left by an exception)
    frame_size,  \* <<frame_width, frame_height>> of the opened video
    frame_no,    \* frame_number, the local counter of the running pass
    n_frames,    \* history: frames read in pass 1 (-1 while pass 1 runs)
    label_file,  \* history: None or <<the label file looked up for the latest
                 \* frame of pass 1>>
    current_scene_idx,  \* the scene cursor of pass 2
    out          \* the frames written to the output video, in order

videoVars ==
    <<pv_pc, frame_size, frame_no, n_frames, label_file, current_scene_idx, out>>

VARIABLES
    vd_pc,       \* position of detect_scenes: "idle", "read" (top of the loop),
                 \* "wait" (in output_queue.get) or "returned"
    vd_frame,    \* frame_number, the local counter of detect_scenes
    frames_read, \* history: frames cap.read() has delivered so far
    input_queue, \* self.input_queue: positions of the frames waiting for inference
    output_queue,       \* self.output_queue: results not yet taken
    vd_log       \* history: one entry per frame whose loop iteration has ended

detectVars == <<vd_pc, vd_frame, frames_read, input_queue, output_queue, vd_log>>

auxVars == <<detVars, videoVars, detectVars>>

vars == <<segVars, cropVars, auxVars>>

----------------------------------------------------------------------------
(* Bounds of the exploration *)

MaxFrame == 7     \* largest frame_number passed to process_frame
MaxGap == 3       \* largest max_gap_frames a detector is constructed with
MaxFinalize == 1  \* largest number of finalize calls on one instance
MaxFrameDim == 5  \* largest frame width and height of the exhaustive crop inputs
MaxBoxDim == 6    \* largest subject box width and height of those inputs

----------------------------------------------------------------------------
(* Optional values *)

None == <<>>

Some(v) == <<v>>

----------------------------------------------------------------------------
(* SceneSegment and SceneDetector *)

DefaultMinConfidence == 85

SceneSegment(start_frame, end_frame, bboxes) ==
    [start_frame |-> start_frame, end_frame |-> end_frame, bboxes |-> bboxes]

SceneDetectorInit(max_gap_frames, min_confidence) ==
    [max_gap_frames |-> max_gap_frames,
     min_confidence |-> min_confidence,
     current_scene  |-> None,
     scenes         |-> <<>>,
     gap_count      |-> 0]

\* Mutant: a confidence equal to min_confidence is rejected.
is_valid_detection_strict(self, bbox_info) ==
    bbox_info # None /\ bbox_info[5] > self.min_confidence

\* bbox_info is None or (x_center, y_center, width, height, confidence)
is_valid_detection(self, bbox_info) ==
    bbox_info # None /\ bbox_info[5] >= self.min_confidence

bbox_of(bbox_info) == SubSeq(bbox_info, 1, 4)

\* Mutant: the new segment is opened without its first sample.
new_scene_no_sample(frame_number, bbox_info) ==
    SceneSegment(frame_number, frame_number, <<>>)

new_scene(frame_number, bbox_info) ==
    SceneSegment(frame_number, frame_number, <<bbox_of(bbox_info)>>)

\* Mutant: the sample is appended but end_frame is not moved.
extend_scene_keep_end(scene, frame_number, bbox_info) ==
    [scene EXCEPT !.bboxes = Append(@, SubSeq(bbox_info, 1, 4))]

extend_scene(scene, frame_number, bbox_info) ==
    [scene EXCEPT !.end_frame = frame_number,
                  !.bboxes = Append(@, bbox_of(bbox_info))]

\* Mutant: the segment is closed one absent frame too early.
gap_exceeded_early(gap_count, max_gap_frames) == gap_count >= max_gap_frames

gap_exceeded(gap_count, max_gap_frames) == gap_count > max_gap_frames

\* Mutant: the closed segment stays the open one.
close_scene_keep_open(self) ==
    [self EXCEPT !.scenes = Append(@, self.current_scene[1]),
                 !.gap_count = 0]

\* Mutant: closing replaces the list of scenes by the segment being closed.
close_scene_reset(self) ==
    [self EXCEPT !.scenes = <<self.current_scene[1]>>,
                 !.current_scene = None,
                 !.gap_count = 0]

close_scene(self) ==
    [self EXCEPT !.scenes = Append(@, self.current_scene[1]),
                 !.current_scene = None,
                 !.gap_count = 0]

\* Mutant: an absent frame is counted as a gap even when no segment is open.
process_frame_counts_idle(self, frame_number, bbox_info) ==
    IF is_valid_detection(self, bbox_info)
    THEN IF self.current_scene = None
         THEN [self EXCEPT !.current_scene = Some(new_scene(frame_number, bbox_info)),
                           !.gap_count = 0]
         ELSE [self EXCEPT !.current_scene =
                               Some(extend_scene(@[1], frame_number, bbox_info)),
                           !.gap_count = 0]
    ELSE LET counted == [self EXCEPT !.gap_count = @ + 1]
         IN  IF self.current_scene # None
                  /\ gap_exceeded(counted.gap_count, counted.max_gap_frames)
             THEN close_scene(counted)
             ELSE counted

process_frame(self, frame_number, bbox_info) ==
    IF is_valid_detection(self, bbox_info)
    THEN IF self.current_scene = None
         THEN [self EXCEPT !.current_scene = Some(new_scene(frame_number, bbox_info)),
                           !.gap_count = 0]
         ELSE [self EXCEPT !.current_scene =
                               Some(extend_scene(@[1], frame_number, bbox_info)),
                           !.gap_count = 0]
    ELSE IF self.current_scene # None
         THEN LET counted == [self EXCEPT !.gap_count = @ + 1]
              IN  IF gap_exceeded(counted.gap_count, counted.max_gap_frames)
                  THEN close_scene(counted)
                  ELSE counted
         ELSE self

\* Mutant: the open segment is dropped instead of appended.
finalize_drop(self) ==
    [self EXCEPT !.current_scene = None]

finalize(self) ==
    IF self.current_scene # None
    THEN [self EXCEPT !.scenes = Append(@, self.current_scene[1]),
                      !.current_scene = None]
    ELSE self

----------------------------------------------------------------------------
(* Inputs of the segmenter: no detection, one below the confidence         *)
(* threshold, one exactly at it and one above it.                          *)

BBoxInputs ==
    { None,
      <<150, 150, 100, 100, 84>>,
      <<150, 150, 100, 100, 85>>,
      <<225, 225, 150, 150, 90>> }

\* Increments between the frame numbers of two successive calls: the callers
\* count frames one by one; the class only asks for increasing numbers.
FrameSteps == {1, 2}

DetIdle ==
    /\ det_pc = "idle"
    /\ input_data = <<>>
    /\ thresholds = None
    /\ detections = None
    /\ nms_again = None

VideoIdle ==
    /\ pv_pc = "idle"
    /\ frame_size = <<0, 0>>
    /\ frame_no = 0
    /\ n_frames = -1
    /\ label_file = None
    /\ current_scene_idx = 0
    /\ out = <<>>

DetectIdle ==
    /\ vd_pc = "idle"
    /\ vd_frame = 0
    /\ frames_read = 0
    /\ input_queue = <<>>
    /\ output_queue = <<>>
    /\ vd_log = <<>>

AuxIdle == DetIdle /\ VideoIdle /\ DetectIdle

CropIdle ==
    /\ crop_pc = "idle"
    /\ scene_in = None
    /\ scene_bbox = None
    /\ crop_args = None
    /\ crop_out = None

InitSeg ==
    /\ CropIdle
    /\ AuxIdle
    /\ \E g \in 0..MaxGap : sd = SceneDetectorInit(g, DefaultMinConfidence)
    /\ last_frame = -1
    /\ fed = <<>>
    /\ absent_run = 0
    /\ n_finalize = 0

\* One call of process_frame, with a frame number larger than every earlier one.
ProcessFrame ==
    \E step \in FrameSteps, bbox_info \in BBoxInputs :
        LET frame_number == last_frame + step
            present == bbox_info # None /\ bbox_info[5] >= sd.min_confidence
        IN  /\ frame_number <= MaxFrame
            /\ sd' = process_frame(sd, frame_number, bbox_info)
            /\ last_frame' = frame_number
            /\ fed' = IF present
                      THEN Append(fed, <<frame_number, SubSeq(bbox_info, 1, 4)>>)
                      ELSE fed
            /\ absent_run' = IF present THEN 0 ELSE absent_run + 1
            /\ UNCHANGED <<n_finalize, cropVars, auxVars>>

Finalize ==
    /\ n_finalize < MaxFinalize
    /\ sd' = finalize(sd)
    /\ n_finalize' = n_finalize + 1
    /\ UNCHANGED <<last_frame, fed, absent_run, cropVars, auxVars>>

Init == InitSeg

Next == ProcessFrame \/ Finalize

Spec == Init /\ [][Next]_vars

----------------------------------------------------------------------------
(* Exact rational arithmetic standing for the float arithmetic of the      *)
(* crop computations.  A rational is <<n, d>> with d > 0 and gcd(n, d) = 1. *)

Abs(i) == IF i < 0 THEN -i ELSE i

RECURSIVE GCD(_, _)
GCD(a, b) == IF b = 0 THEN a ELSE GCD(b, a % b)

Rat(n, d) ==
    LET sn == IF d < 0 THEN -n ELSE n
        sd_ == Abs(d)
        g == GCD(Abs(sn), sd_)
    IN  <<sn \div g, sd_ \div g>>

FromInt(i) == <<i, 1>>

RAdd(p, q) == Rat(p[1] * q[2] + q[1] * p[2], p[2] * q[2])

RSub(p, q) == Rat(p[1] * q[2] - q[1] * p[2], p[2] * q[2])

RMul(p, q) == Rat(p[1] * q[1], p[2] * q[2])

\* q # 0 is the caller's obligation: Python raises ZeroDivisionError otherwise.
RDiv(p, q) == Rat(p[1] * q[2], p[2] * q[1])

RLe(p, q) == p[1] * q[2] <= q[1] * p[2]

RLt(p, q) == p[1] * q[2] < q[1] * p[2]

RIsZero(p) == p[1] = 0

\* int(): truncation toward zero
int(p) == IF p[1] >= 0 THEN p[1] \div p[2] ELSE -((-p[1]) \div p[2])

min(a, b) == IF a <= b THEN a ELSE b

max(a, b) == IF a >= b THEN a ELSE b

----------------------------------------------------------------------------
(* calculate_scene_bbox *)

\* Mutant: the union grows by 8% of its extent in total, 4% on each side.
scene_expansion_halved(extent) == RMul(extent, Rat(4, 100))

\* expansion_x = width * 0.08
scene_expansion(extent) == RMul(extent, Rat(8, 100))

\* One sample (x, y, w, h), in thousandths of the frame, as absolute corners.
abs_corner(bbox, frame_width, frame_height) ==
    LET abs_x == RMul(Rat(bbox[1], 1000), FromInt(frame_width))
        abs_y == RMul(Rat(bbox[2], 1000), FromInt(frame_height))
        abs_w == RMul(Rat(bbox[3], 1000), FromInt(frame_width))
        abs_h == RMul(Rat(bbox[4], 1000), FromInt(frame_height))
        two == FromInt(2)
    IN  <<RSub(abs_x, RDiv(abs_w, two)), RSub(abs_y, RDiv(abs_h, two)),
          RAdd(abs_x, RDiv(abs_w, two)), RAdd(abs_y, RDiv(abs_h, two))>>

\* min / max of component k over a non-empty sequence of corner tuples
RECURSIVE corner_min(_, _)
corner_min(corners, k) ==
    IF Len(corners) = 1 THEN corners[1][k]
    ELSE LET rest == corner_min(Tail(corners), k)
         IN  IF RLe(corners[1][k], rest) THEN corners[1][k] ELSE rest

RECURSIVE corner_max(_, _)
corner_max(corners, k) ==
    IF Len(corners) = 1 THEN corners[1][k]
    ELSE LET rest == corner_max(Tail(corners), k)
         IN  IF RLe(rest, corners[1][k]) THEN corners[1][k] ELSE rest

calculate_scene_bbox(scene, frame_width, frame_height) ==
    LET abs_corners == [i \in 1..Len(scene.bboxes) |->
                            abs_corner(scene.bboxes[i], frame_width, frame_height)]
        left0 == corner_min(abs_corners, 1)
        top0 == corner_min(abs_corners, 2)
        right0 == corner_max(abs_corners, 3)
        bottom0 == corner_max(abs_corners, 4)
        width == RSub(right0, left0)
        height == RSub(bottom0, top0)
        expansion_x == scene_expansion(width)
        expansion_y == scene_expansion(height)
        left == RSub(left0, expansion_x)
        right == RAdd(right0, expansion_x)
        top == RSub(top0, expansion_y)
        bottom == RAdd(bottom0, expansion_y)
        center_x == RDiv(RAdd(left, right), FromInt(2))
        center_y == RDiv(RAdd(top, bottom), FromInt(2))
        final_width == RSub(right, left)
        final_height == RSub(bottom, top)
    IN  <<int(center_x), int(center_y), int(final_width), int(final_height)>>

----------------------------------------------------------------------------
(* calculate_crop_coordinates (smoothing_buffer = None, as process_video   *)
(* calls it).  The outcome is [raised, crop]: raised names the exception   *)
(* that leaves the function, or is "" and crop is the returned tuple.      *)

TargetWidth == 1920

TargetHeight == 1080

\* Mutant: the subject box is not expanded.
expanded_none(bbox_dim) == FromInt(bbox_dim)

\* expanded_width = bbox_width + 2 * (bbox_width * 0.08)
expanded(bbox_dim) ==
    RAdd(FromInt(bbox_dim),
         RMul(FromInt(2), RMul(FromInt(bbox_dim), Rat(8, 100))))

\* aspect_ratio = target_width / target_height
aspect_ratio(target_width, target_height) == Rat(target_width, target_height)

\* Mutant: the expanded box is used as it is, without the aspect lock.
crop_size_unlocked(bbox_width, bbox_height, target_width, target_height) ==
    <<expanded(bbox_width), expanded(bbox_height)>>

\* <<crop_width, crop_height>>; evaluated only when expanded_height # 0
crop_size(bbox_width, bbox_height, target_width, target_height) ==
    LET expanded_width == expanded(bbox_width)
        expanded_height == expanded(bbox_height)
        ar == aspect_ratio(target_width, target_height)
    IN  IF RLt(ar, RDiv(expanded_width, expanded_height))
        THEN <<expanded_width, RDiv(expanded_width, ar)>>
        ELSE <<RMul(expanded_height, ar), expanded_height>>

\* Which of the four branches of the boundary handling is taken
boundary_case(frame_width, frame_height, crop_width, crop_height) ==
    LET x_has_space == RLe(crop_width, FromInt(frame_width))
        y_has_space == RLe(crop_height, FromInt(frame_height))
    IN  IF x_has_space /\ y_has_space THEN "a"
        ELSE IF ~x_has_space /\ y_has_space THEN "b"
        ELSE IF x_has_space /\ ~y_has_space THEN "c"
        ELSE "d"

\* The crop rectangle before the final clamping, as rationals
\* Mutant: the rectangle stays centred on the subject in every boundary case.
unclamped_crop_centred(frame_width, frame_height, mickey_x, mickey_y, crop_width, crop_height) ==
    LET crop_x1 == RSub(FromInt(mickey_x), RDiv(crop_width, FromInt(2)))
        crop_y1 == RSub(FromInt(mickey_y), RDiv(crop_height, FromInt(2)))
    IN  <<crop_x1, crop_y1, RAdd(crop_x1, crop_width), RAdd(crop_y1, crop_height)>>

unclamped_crop(frame_width, frame_height, mickey_x, mickey_y, crop_width, crop_height) ==
    LET two == FromInt(2)
        mx == FromInt(mickey_x)
        my == FromInt(mickey_y)
        fw == FromInt(frame_width)
        fh == FromInt(frame_height)
        zero == FromInt(0)
        crop_x1 == RSub(mx, RDiv(crop_width, two))
        crop_y1 == RSub(my, RDiv(crop_height, two))
        crop_x2 == RAdd(crop_x1, crop_width)
        crop_y2 == RAdd(crop_y1, crop_height)
        case == boundary_case(frame_width, frame_height, crop_width, crop_height)
        quarter_width == RDiv(fw, two)
        quarter_height == RDiv(fh, two)
    IN  CASE case = "a" -> <<crop_x1, crop_y1, crop_x2, crop_y2>>
          [] case = "b" -> <<zero, RSub(my, RDiv(crop_height, two)),
                             fw, RAdd(my, RDiv(crop_height, two))>>
          [] case = "c" -> <<RSub(mx, RDiv(crop_width, two)), zero,
                             RAdd(mx, RDiv(crop_width, two)), fh>>
          [] case = "d" ->
                LET x == IF RLt(mx, RDiv(fw, two))
                         THEN <<zero, RMul(quarter_width, two)>>
                         ELSE <<RSub(fw, RMul(quarter_width, two)), fw>>
                    y == IF RLt(my, RDiv(fh, two))
                         THEN <<zero, RMul(quarter_height, two)>>
                         ELSE <<RSub(fh, RMul(quarter_height, two)), fh>>
                IN  <<x[1], y[1], x[2], y[2]>>

\* crop_x1 = max(0, min(int(crop_x1), frame_width - 1))
clamp_low(v, frame_dim) == max(0, min(int(v), frame_dim - 1))

\* Mutant: the far edge is clamped into the frame but not forced past the near one.
clamp_high_unforced(low, v, frame_dim) == min(int(v), frame_dim)

\* crop_x2 = max(crop_x1 + 1, min(int(crop_x2), frame_width))
clamp_high(low, v, frame_dim) == max(low + 1, min(int(v), frame_dim))

calculate_crop_coordinates(frame_width, frame_height, mickey_x, mickey_y, bbox_width, bbox_height, target_width, target_height) ==
    IF RIsZero(expanded(bbox_height))
    THEN [raised |-> "ZeroDivisionError", crop |-> <<>>]
    ELSE LET size == crop_size(bbox_width, bbox_height, target_width, target_height)
             r == unclamped_crop(frame_width, frame_height, mickey_x, mickey_y,
                                 size[1], size[2])
             crop_x1 == clamp_low(r[1], frame_width)
             crop_y1 == clamp_low(r[2], frame_height)
             crop_x2 == clamp_high(crop_x1, r[3], frame_width)
             crop_y2 == clamp_high(crop_y1, r[4], frame_height)
         IN  [raised |-> "", crop |-> <<crop_x1, crop_y1, crop_x2, crop_y2>>]

----------------------------------------------------------------------------
(* The crop computation of one output frame.  In the scene-based pipeline  *)
(* the subject box is the aggregate of a closed scene; in the direct       *)
(* pipeline it is the frame's own detection in absolute pixels.            *)

CropArgs(frame_width, frame_height, mickey_x, mickey_y, bbox_width, bbox_height) ==
    [frame_width |-> frame_width, frame_height |-> frame_height,
     mickey_x |-> mickey_x, mickey_y |-> mickey_y,
     bbox_width |-> bbox_width, bbox_height |-> bbox_height]

\* Exhaustive small inputs: every frame size, every centre from one pixel
\* outside the frame on each side, every box size including empty boxes.
SmallCropInputs ==
    { CropArgs(fw, fh, mx, my, bw, bh) :
        fw \in 1..MaxFrameDim, fh \in 1..MaxFrameDim,
        mx \in -1..(MaxFrameDim + 1), my \in -1..(MaxFrameDim + 1),
        bw \in 0..MaxBoxDim, bh \in 0..MaxBoxDim }

\* Inputs at the scale of real video frames.
VideoFrameSizes == {<<1920, 1080>>, <<1080, 1920>>, <<3840, 2160>>}

VideoCropInputs ==
    { CropArgs(f[1], f[2], mx, my, bw, bh) :
        f \in VideoFrameSizes,
        mx \in {0, 50, 960, 1900}, my \in {50, 540, 1079},
        bw \in {0, 1, 100, 1000, 3000}, bh \in {0, 100, 1000, 3000} }

\* Samples of a scene: (x, y, w, h) in thousandths of the frame.
SampleBoxes ==
    { <<150, 150, 100, 100>>, <<225, 225, 150, 150>>,
      <<500, 500, 1, 1>>, <<500, 400, 900, 700>> }

SceneInputs ==
    { SceneSegment(0, 0, <<b>>) : b \in SampleBoxes }
        \cup { SceneSegment(0, 1, <<b, c>>) : b \in SampleBoxes, c \in SampleBoxes }

SceneFrameSizes == VideoFrameSizes \cup {<<1000, 1000>>, <<100, 100>>}

SegIdle ==
    /\ sd = SceneDetectorInit(0, DefaultMinConfidence)
    /\ last_frame = -1
    /\ fed = <<>>
    /\ absent_run = 0
    /\ n_finalize = 0

InitCrop ==
    /\ SegIdle
    /\ AuxIdle
    /\ scene_bbox = None
    /\ crop_out = None
    /\ \/ /\ crop_pc = "scene_bbox"
          /\ \E scene \in SceneInputs, f \in SceneFrameSizes :
                scene_in = Some([scene |-> scene, frame_width |-> f[1],
                                 frame_height |-> f[2]])
          /\ crop_args = None
       \/ /\ crop_pc = "crop"
          /\ scene_in = None
          /\ \E a \in SmallCropInputs \cup VideoCropInputs : crop_args = Some(a)

\* scene_bbox = calculate_scene_bbox(current_scene, frame_width, frame_height)
\* and the unpacking of its result into the arguments of the crop calculator
CalcSceneBBox ==
    /\ crop_pc = "scene_bbox"
    /\ LET in == scene_in[1]
           bbox == calculate_scene_bbox(in.scene, in.frame_width, in.frame_height)
       IN  /\ scene_bbox' = Some(bbox)
           /\ crop_args' = Some(CropArgs(in.frame_width, in.frame_height,
                                         bbox[1], bbox[2], bbox[3], bbox[4]))
    /\ crop_pc' = "crop"
    /\ UNCHANGED <<scene_in, crop_out, segVars, auxVars>>

CalcCrop ==
    /\ crop_pc = "crop"
    /\ LET a == crop_args[1]
       IN  crop_out' = Some(calculate_crop_coordinates(
                                a.frame_width, a.frame_height, a.mickey_x, a.mickey_y,
                                a.bbox_width, a.bbox_height, TargetWidth, TargetHeight))
    /\ crop_pc' = "done"
    /\ UNCHANGED <<scene_in, scene_bbox, crop_args, segVars, auxVars>>

NextCrop == CalcSceneBBox \/ CalcCrop

SpecCrop == InitCrop /\ [][NextCrop]_vars

----------------------------------------------------------------------------
(* ObjectDetectionUtils.extract_detections (src/object_detection_utils.py)  *)
(*                                                                         *)
(* A stride level of the raw output is [channels, rows]: the size of its   *)
(* trailing dimension and, for a level that reshapes, its decoded          *)
(* predictions.  A prediction is <<cx, cy, w, h, obj, cls0, cls1>> after    *)
(* the sigmoid decode and the division by the input size: the box in       *)
(* tenths of the frame, the objectness and the class confidences in        *)
(* tenths.  Scores are products of two of these, i.e. hundredths; corner    *)
(* coordinates are carried in twentieths, so that centre -/+ size / 2 is   *)
(* exact, and areas in 1/400.                                              *)

\* Bound: predictions per stride level
MaxRows == 2

num_classes == 2

anchors_per_cell == 3

\* The value 1.0 of a normalised corner coordinate, in twentieths
One == 20

EmptyResult ==
    [detection_boxes |-> <<>>, detection_classes |-> <<>>,
     detection_scores |-> <<>>, num_detections |-> 0]

RECURSIVE Flatten(_)
Flatten(seqs) ==
    IF seqs = <<>> THEN <<>> ELSE Head(seqs) \o Flatten(Tail(seqs))

\* x.reshape(batch_size, grid_h, grid_w, 3, 5 + num_classes) raises ValueError
\* unless the trailing dimension holds exactly that many values
reshape_never_raises(layer) == FALSE

reshape_raises(layer) == layer.channels # anchors_per_cell * (5 + num_classes)

\* z = np.concatenate(z, axis=1): the predictions of all levels, in level order
concatenate(data) == Flatten([i \in 1..Len(data) |-> data[i].rows])

\* cls_scores = obj_conf[..., None] * cls_conf, in hundredths
cls_scores(row) == <<row[5] * row[6], row[5] * row[7]>>

max_scores(row) == max(cls_scores(row)[1], cls_scores(row)[2])

\* np.argmax(cls_scores, axis=-1): the first index holding the maximum
argmax(row) == IF cls_scores(row)[1] >= cls_scores(row)[2] THEN 0 ELSE 1

\* mask = max_scores > conf_thres
confidence_mask(row, conf_thres) == max_scores(row) > conf_thres

clip(v) == max(0, min(v, One))

\* centre form to corner form (x1, y1, x2, y2), clipped to the image
pred_box(row) ==
    << clip(2 * row[1] - row[3]), clip(2 * row[2] - row[4]),
       clip(2 * row[1] + row[3]), clip(2 * row[2] + row[4]) >>

Detection(box, score, class) == [box |-> box, score |-> score, class |-> class]

\* filtered_boxes / filtered_scores / filtered_classes, row by row
filtered(z, conf_thres) ==
    LET kept == SelectSeq(z, LAMBDA row : confidence_mask(row, conf_thres))
    IN  [i \in 1..Len(kept) |->
            Detection(pred_box(kept[i]), max_scores(kept[i]), argmax(kept[i]))]

\* _calculate_iou(box1, box2), returned as <<intersection, union>>: the
\* quotient is intersection / (union + 1e-7)
calculate_iou(box1, box2) ==
    LET x1 == max(box1[1], box2[1])
        y1 == max(box1[2], box2[2])
        x2 == min(box1[3], box2[3])
        y2 == min(box1[4], box2[4])
        intersection == max(0, x2 - x1) * max(0, y2 - y1)
        box1_area == (box1[3] - box1[1]) * (box1[4] - box1[2])
        box2_area == (box2[3] - box2[1]) * (box2[4] - box2[2])
    IN  <<intersection, box1_area + box2_area - intersection>>

\* ious <= iou_thres.  Areas are multiples of 1/400 and iou_thres of 1/100, so
\* the 1e-7 added to the union changes the comparison for no pair of areas:
\* it only makes the quotient 0 (instead of undefined) when the union is 0.
keep_mask_all(iou, iou_thres) == TRUE

keep_mask(iou, iou_thres) == iou[1] * 100 <= iou_thres * iou[2]

\* idxs = np.argsort(-filtered_scores): every index order with non-increasing
\* scores.  The default sort kind is not stable, so the order among equal
\* scores is whichever the sort of the installed numpy build produces.
RECURSIVE argsort_of(_, _)
argsort_of(scores, todo) ==
    IF todo = {} THEN { <<>> }
    ELSE UNION { { <<i>> \o rest : rest \in argsort_of(scores, todo \ {i}) } :
                 i \in { j \in todo : \A k \in todo : scores[j] >= scores[k] } }

argsort(scores) == argsort_of(scores, DOMAIN scores)

\* the while loop: keep the first candidate, drop the later ones that overlap it
\* by more than iou_thres, repeat on what is left
RECURSIVE suppress(_, _)
suppress(preds, iou_thres) ==
    IF preds = <<>> THEN <<>>
    ELSE <<Head(preds)>> \o
         suppress(SelectSeq(Tail(preds),
                            LAMBDA d : keep_mask(calculate_iou(Head(preds).box, d.box),
                                                 iou_thres)),
                  iou_thres)

\* sort by confidence, then suppress: the detections retained, for every order
\* the sort may produce
sort_and_suppress(cands, iou_thres) ==
    { suppress([i \in 1..Len(cands) |-> cands[idxs[i]]], iou_thres) :
        idxs \in argsort([i \in 1..Len(cands) |-> cands[i].score]) }

Result(final) ==
    [detection_boxes |-> [i \in 1..Len(final) |-> final[i].box],
     detection_classes |-> [i \in 1..Len(final) |-> final[i].class],
     detection_scores |-> [i \in 1..Len(final) |-> final[i].score],
     num_detections |-> Len(final)]

\* The candidates a returned dict holds, for feeding it to the loop again
Candidates(result) ==
    [i \in 1..result.num_detections |->
        Detection(result.detection_boxes[i], result.detection_scores[i],
                  result.detection_classes[i])]

\* extract_detections(input_data, conf_thres, iou_thres): the dicts it can
\* return.  Every exception raised in its body is caught and answered with
\* the empty dict.
extract_detections(data, conf_thres, iou_thres) ==
    IF \E i \in 1..Len(data) : reshape_raises(data[i])
    THEN { EmptyResult }
    ELSE LET cands == filtered(concatenate(data), conf_thres)
         IN  IF cands = <<>>
             THEN { EmptyResult }
             ELSE { Result(final) : final \in sort_and_suppress(cands, iou_thres) }

Rows ==
    { <<4, 4, 4, 4, 10, 9, 1>>,     \* score 0.90, class 0
      <<5, 4, 4, 4, 10, 1, 9>>,     \* score 0.90, class 1, IoU 0.6 with the first
      <<6, 4, 4, 4, 10, 5, 2>>,     \* score 0.50, IoU 1/3 with the first, 0.6 with
                                    \* the second
      <<1, 9, 4, 4, 5, 5, 5>>,      \* score 0.25, reaches over the image border
      <<8, 8, 2, 2, 10, 3, 8>> }    \* score 0.80, class 1, apart from the others

RowSeqs == UNION { [1..n -> Rows] : n \in 0..MaxRows }

\* Well-formed levels (21 channels) and a level with 18 channels, whose
\* reshape fails before any of it is decoded
Layers ==
    { [channels |-> 21, rows |-> r] : r \in RowSeqs }
        \cup { [channels |-> 18, rows |-> <<>>] }

ConfThresholds == {25, 50}

IouThresholds == {45, 60}

InitDecode ==
    /\ SegIdle
    /\ CropIdle
    /\ VideoIdle
    /\ DetectIdle
    /\ det_pc = "decode"
    /\ \E l1 \in Layers, l2 \in Layers : input_data = <<l1, l2>>
    /\ \E c \in ConfThresholds, i \in IouThresholds :
            thresholds = Some([conf_thres |-> c, iou_thres |-> i])
    /\ detections = None
    /\ nms_again = None

\* detections = self.utils.extract_detections(result)
ExtractDetections ==
    /\ det_pc = "decode"
    /\ \E r \in extract_detections(input_data, thresholds[1].conf_thres,
                                   thresholds[1].iou_thres) :
            detections' = Some(r)
    /\ det_pc' = "done"
    /\ UNCHANGED <<input_data, thresholds, nms_again, segVars, cropVars, videoVars, detectVars>>

\* The sort and the suppression loop applied to the detections just returned
ReapplyNMS ==
    /\ det_pc = "done"
    /\ \E final \in sort_and_suppress(Candidates(detections[1]),
                                      thresholds[1].iou_thres) :
            nms_again' = Some(Result(final))
    /\ det_pc' = "again"
    /\ UNCHANGED <<input_data, thresholds, detections, segVars, cropVars, videoVars, detectVars>>

NextDecode == ExtractDetections \/ ReapplyNMS

SpecDecode == InitDecode /\ [][NextDecode]_vars

----------------------------------------------------------------------------
(* process_video of src/mickey_test_frame.py: pass 1 feeds the label file  *)
(* of every frame to a SceneDetector, pass 2 replays the frames and writes *)
(* one output frame each.                                                  *)
(*                                                                         *)
(* A label file is the sequence of its lines, a line the tuple of its      *)
(* numbers: <<label, x_center, y_center, width, height, confidence>> when  *)
(* well-formed.  The file looked up for a frame is None when it does not   *)
(* exist and <<lines>> when it does.                                       *)

\* Bounds: frames of the video; lines of a label file and frames fed when
\* the label files vary freely
MaxVideoFrames == 6
MaxLines == 2
MaxLabelFrames == 2

DefaultMaxGapFrames == 3

\* read_bbox_file(filepath): the first line with label 0, None if there is
\* none; a line that fails to parse ends the reading with None
RECURSIVE read_bbox_file(_)
read_bbox_file(lines) ==
    IF lines = <<>> THEN None
    ELSE IF Len(Head(lines)) # 6 THEN None
    ELSE IF Head(lines)[1] = 0 THEN SubSeq(Head(lines), 2, 6)
    ELSE read_bbox_file(Tail(lines))

\* bbox_info of a frame of pass 1: None unless the file exists
frame_bbox_info(file) == IF file = None THEN None ELSE read_bbox_file(file[1])

\* The rectangle pass 2 computes for a frame inside current_scene
scene_crop_running(scene, frame_number, frame_width, frame_height) ==
    LET seen == min(Len(scene.bboxes), frame_number - scene.start_frame + 1)
        part == [scene EXCEPT !.bboxes = SubSeq(scene.bboxes, 1, seen)]
    IN  CHOOSE c \in { calculate_crop_coordinates(frame_width, frame_height,
                                                  b[1], b[2], b[3], b[4],
                                                  TargetWidth, TargetHeight) :
                       b \in { calculate_scene_bbox(part, frame_width, frame_height) } } :
            TRUE

\* scene_bbox = calculate_scene_bbox(current_scene, ...), unpacked into the
\* arguments of calculate_crop_coordinates
scene_crop(scene, frame_number, frame_width, frame_height) ==
    CHOOSE c \in { calculate_crop_coordinates(frame_width, frame_height,
                                              b[1], b[2], b[3], b[4],
                                              TargetWidth, TargetHeight) :
                   b \in { calculate_scene_bbox(scene, frame_width, frame_height) } } :
        TRUE

\* An output frame: the frame it was made from and the rectangle cut out of
\* it, None for the whole frame resized
Written(frame_number, crop) == [frame_number |-> frame_number, crop |-> crop]

LabelLines ==
    { <<0, 150, 150, 100, 100, 84>>,
      <<0, 150, 150, 100, 100, 85>>,
      <<0, 225, 225, 150, 150, 90>>,
      <<1, 500, 500, 100, 100, 95>>,
      <<0, 225, 225, 150, 150>> }    \* no confidence column: the unpacking fails

LabelFiles == {None} \cup { Some(f) : f \in UNION { [1..n -> LabelLines] : n \in 0..MaxLines } }

\* The label files of the frames of a whole video: no file, a subject below
\* the threshold, the subject at two places, the second box of height 0
VideoLabelFiles ==
    { None,
      Some(<< <<0, 150, 150, 100, 100, 84>> >>),
      Some(<< <<0, 150, 150, 100, 100, 85>> >>),
      Some(<< <<1, 500, 500, 100, 100, 95>>, <<0, 225, 225, 150, 0, 90>> >>) }

InitVideo ==
    /\ CropIdle
    /\ DetIdle
    /\ DetectIdle
    /\ sd = SceneDetectorInit(DefaultMaxGapFrames, DefaultMinConfidence)
    /\ last_frame = -1
    /\ fed = <<>>
    /\ absent_run = 0
    /\ n_finalize = 0
    /\ pv_pc = "pass1"
    /\ frame_size \in VideoFrameSizes
    /\ frame_no = 0
    /\ n_frames = -1
    /\ label_file = None
    /\ current_scene_idx = 0
    /\ out = <<>>

\* One iteration of the first loop: a frame is read, its label file looked up
\* and the result given to the segmenter
PassOne(files, max_frames) ==
    /\ pv_pc = "pass1"
    /\ frame_no < max_frames
    /\ \E file \in files :
        LET bbox_info == frame_bbox_info(file)
            present == bbox_info # None /\ bbox_info[5] >= sd.min_confidence
        IN  /\ label_file' = Some(file)
            /\ sd' = process_frame(sd, frame_no, bbox_info)
            /\ last_frame' = frame_no
            /\ fed' = IF present
                      THEN Append(fed, <<frame_no, SubSeq(bbox_info, 1, 4)>>)
                      ELSE fed
            /\ absent_run' = IF present THEN 0 ELSE absent_run + 1
    /\ frame_no' = frame_no + 1
    /\ UNCHANGED <<pv_pc, frame_size, n_frames, current_scene_idx, out, n_finalize,
                   cropVars, detVars, detectVars>>

PassOneFrame == PassOne(VideoLabelFiles, MaxVideoFrames)

\* The same iteration, over every label file of up to MaxLines lines
LabelFrame == PassOne(LabelFiles, MaxLabelFrames)

\* cap.read() reports the end of the video: finalize, rewind, start pass 2
PassOneEnd ==
    /\ pv_pc = "pass1"
    /\ sd' = finalize(sd)
    /\ n_finalize' = n_finalize + 1
    /\ n_frames' = frame_no
    /\ frame_no' = 0
    /\ current_scene_idx' = 0
    /\ label_file' = None
    /\ pv_pc' = "pass2"
    /\ UNCHANGED <<frame_size, out, last_frame, fed, absent_run, cropVars, detVars, detectVars>>

\* One iteration of the second loop
PassTwoFrame ==
    /\ pv_pc = "pass2"
    /\ frame_no < n_frames
    /\ LET has_scene == sd.scenes # <<>>
           current_scene == sd.scenes[current_scene_idx + 1]
       IN  IF has_scene /\ current_scene.start_frame <= frame_no
                        /\ frame_no <= current_scene.end_frame
           THEN \E c \in { scene_crop(current_scene, frame_no,
                                       frame_size[1], frame_size[2]) } :
                    IF c.raised # ""
                    THEN /\ pv_pc' = "crashed"
                         /\ UNCHANGED <<out, current_scene_idx, frame_no>>
                    ELSE /\ out' = Append(out, Written(frame_no, Some(c.crop)))
                         /\ current_scene_idx' =
                                IF frame_no = current_scene.end_frame
                                   /\ current_scene_idx < Len(sd.scenes) - 1
                                THEN current_scene_idx + 1
                                ELSE current_scene_idx
                         /\ frame_no' = frame_no + 1
                         /\ UNCHANGED pv_pc
           ELSE /\ out' = Append(out, Written(frame_no, None))
                /\ frame_no' = frame_no + 1
                /\ UNCHANGED <<pv_pc, current_scene_idx>>
    /\ UNCHANGED <<frame_size, n_frames, label_file, segVars, cropVars, detVars, detectVars>>

\* cap.read() reports the end of the video in pass 2: release and return
PassTwoEnd ==
    /\ pv_pc = "pass2"
    /\ frame_no = n_frames
    /\ pv_pc' = "released"
    /\ UNCHANGED <<frame_size, frame_no, n_frames, label_file, current_scene_idx,
                   out, segVars, cropVars, detVars, detectVars>>

NextVideo == PassOneFrame \/ PassOneEnd \/ PassTwoFrame \/ PassTwoEnd

SpecVideo == InitVideo /\ [][NextVideo]_vars

NextLabels == LabelFrame \/ PassOneEnd

SpecLabels == InitVideo /\ [][NextLabels]_vars

----------------------------------------------------------------------------
(* VideoDetector.detect_scenes (src/object_detection.py): the first pass   *)
(* over the video, with the inference thread between input_queue and       *)
(* output_queue.                                                           *)
(*                                                                         *)
(* A frame is named by its position in the video, counted from 0.  An      *)
(* entry of output_queue is None or <<[frame, infer_results]>>, the frame  *)
(* the result was computed from and the raw output of the network.         *)

\* Bound: frames of the video
MaxDetectFrames == 6

DetectorConfThres == 50

DetectorIouThres == 45

\* Raw network outputs: the subject with score 0.90, the other class only,
\* nothing at all, and an output with one malformed stride level
InferOutputs ==
    { << [channels |-> 21, rows |-> << <<4, 4, 4, 4, 10, 9, 1>> >>],
         [channels |-> 21, rows |-> <<>>] >>,
      << [channels |-> 21, rows |-> << <<8, 8, 2, 2, 10, 3, 8>> >>],
         [channels |-> 21, rows |-> <<>>] >>,
      << [channels |-> 21, rows |-> <<>>],
         [channels |-> 21, rows |-> <<>>] >>,
      << [channels |-> 21, rows |-> << <<4, 4, 4, 4, 10, 9, 1>> >>],
         [channels |-> 18, rows |-> <<>>] >> }

\* The detection of the subject class (0) with the highest score, as
\* (x_center, y_center, width, height, confidence) in thousandths and
\* hundredths, or None: what the segmenter takes from a detections dict
RECURSIVE best_subject(_, _)
best_subject(dets, i) ==
    IF i > dets.num_detections THEN None
    ELSE LET rest == best_subject(dets, i + 1)
             box == dets.detection_boxes[i]
             here == << (box[1] + box[3]) * 25, (box[2] + box[4]) * 25,
                        (box[3] - box[1]) * 50, (box[4] - box[2]) * 50,
                        dets.detection_scores[i] >>
         IN  IF dets.detection_classes[i] # 0 THEN rest
             ELSE IF rest # None /\ rest[5] > here[5] THEN rest
             ELSE here

subject_detection(dets) == best_subject(dets, 1)

\* One entry of the history: the frame, how its iteration ended, the
\* frame_number it was given to the segmenter with (-1: it was not), and
\* the frame whose result was used for it (-1: none)
Handled(frame, outcome, fed_as, result_of) ==
    [frame |-> frame, outcome |-> outcome, fed_as |-> fed_as, result_of |-> result_of]

InitDetect ==
    /\ CropIdle
    /\ DetIdle
    /\ VideoIdle
    /\ sd = SceneDetectorInit(DefaultMaxGapFrames, DefaultMinConfidence)
    /\ last_frame = -1
    /\ fed = <<>>
    /\ absent_run = 0
    /\ n_finalize = 0
    /\ vd_pc = "read"
    /\ vd_frame = 0
    /\ frames_read = 0
    /\ input_queue = <<>>
    /\ output_queue = <<>>
    /\ vd_log = <<>>

\* cap.read() delivers a frame; preprocess returns None (continue) or the
\* frame is put on input_queue and the loop waits for a result
ReadFrame ==
    /\ vd_pc = "read"
    /\ frames_read < MaxDetectFrames
    /\ frames_read' = frames_read + 1
    /\ \/ /\ vd_log' = Append(vd_log, Handled(frames_read, "preprocess_failed", -1, -1))
          /\ UNCHANGED <<vd_pc, input_queue>>
       \/ /\ input_queue' = Append(input_queue, frames_read)
          /\ vd_pc' = "wait"
          /\ UNCHANGED vd_log
    /\ UNCHANGED <<vd_frame, output_queue, segVars, cropVars, detVars, videoVars>>

\* The inference thread takes one frame from input_queue and puts its result
\* on output_queue
Infer ==
    /\ input_queue # <<>>
    /\ input_queue' = Tail(input_queue)
    /\ \/ \E raw \in InferOutputs :
            output_queue' = Append(output_queue,
                                   Some([frame |-> Head(input_queue), infer_results |-> raw]))
       \/ output_queue' = Append(output_queue, None)
    /\ UNCHANGED <<vd_pc, vd_frame, frames_read, vd_log, segVars, cropVars, detVars,
                   videoVars>>

\* output_queue.get(timeout=5) returns: a None result is skipped (continue),
\* any other is decoded and given to the segmenter, and frame_number advances
GetResult ==
    /\ vd_pc = "wait"
    /\ output_queue # <<>>
    /\ output_queue' = Tail(output_queue)
    /\ vd_pc' = "read"
    /\ LET result == Head(output_queue)
           frame == frames_read - 1
       IN  IF result = None
           THEN /\ vd_log' = Append(vd_log, Handled(frame, "none_result", -1, -1))
                /\ UNCHANGED <<vd_frame, segVars>>
           ELSE \E dets \in extract_detections(result[1].infer_results,
                                               DetectorConfThres, DetectorIouThres) :
                LET bbox_info == subject_detection(dets)
                    present == bbox_info # None /\ bbox_info[5] >= sd.min_confidence
                    failed == \E i \in 1..Len(result[1].infer_results) :
                                    reshape_raises(result[1].infer_results[i])
                    outcome == IF failed THEN "decode_failed"
                               ELSE IF present THEN "present" ELSE "absent"
                IN  /\ sd' = process_frame(sd, vd_frame, bbox_info)
                    /\ last_frame' = vd_frame
                    /\ fed' = IF present
                              THEN Append(fed, <<vd_frame, SubSeq(bbox_info, 1, 4)>>)
                              ELSE fed
                    /\ absent_run' = IF present THEN 0 ELSE absent_run + 1
                    /\ vd_frame' = vd_frame + 1
                    /\ vd_log' = Append(vd_log, Handled(frame, outcome, vd_frame,
                                                        result[1].frame))
                    /\ UNCHANGED n_finalize
    /\ UNCHANGED <<frames_read, input_queue, cropVars, detVars, videoVars>>

\* output_queue.get(timeout=5) raises queue.Empty: nothing arrived in time
\* (continue)
Timeout ==
    /\ vd_pc = "wait"
    /\ output_queue = <<>>
    /\ vd_pc' = "read"
    /\ vd_log' = Append(vd_log, Handled(frames_read - 1, "timeout", -1, -1))
    /\ UNCHANGED <<vd_frame, frames_read, input_queue, output_queue, segVars, cropVars,
                   detVars, videoVars>>

\* cap.read() reports the end of the video: finalize, and once more in the
\* finally clause when no scene is recorded
EndOfVideo ==
    /\ vd_pc = "read"
    /\ LET done == finalize(sd)
       IN  IF done.scenes = <<>>
           THEN /\ sd' = finalize(done)
                /\ n_finalize' = n_finalize + 2
           ELSE /\ sd' = done
                /\ n_finalize' = n_finalize + 1
    /\ vd_pc' = "returned"
    /\ UNCHANGED <<vd_frame, frames_read, input_queue, output_queue, vd_log, last_frame,
                   fed, absent_run, cropVars, detVars, videoVars>>

\* An exception is raised inside the frame loop (cap.read() raising
\* cv2.error, say): the except clause logs it, and the finally clause calls
\* finalize only when no scene is recorded
LoopError ==
    /\ vd_pc = "read"
    /\ IF sd.scenes = <<>>
       THEN /\ sd' = finalize(sd)
            /\ n_finalize' = n_finalize + 1
       ELSE UNCHANGED <<sd, n_finalize>>
    /\ vd_pc' = "returned"
    /\ UNCHANGED <<vd_frame, frames_read, input_queue, output_queue, vd_log, last_frame,
                   fed, absent_run, cropVars, detVars, videoVars>>

NextDetect == ReadFrame \/ Infer \/ GetResult \/ Timeout \/ EndOfVideo \/ LoopError

SpecDetect == InitDetect /\ [][NextDetect]_vars

----------------------------------------------------------------------------
(* Derived views of the segmenter state and of its call history *)

\* Every segment the detector holds: the closed ones, then the open one.
AllSegments == sd.scenes \o sd.current_scene

RECURSIVE ConcatBBoxes(_)
ConcatBBoxes(segs) ==
    IF segs = <<>> THEN <<>> ELSE Head(segs).bboxes \o ConcatBBoxes(Tail(segs))

FedFrames == [i \in 1..Len(fed) |-> fed[i][1]]

FedBoxes == [i \in 1..Len(fed) |-> fed[i][2]]

FedWithin(lo, hi) ==
    LET InRange(e) == lo <= e[1] /\ e[1] <= hi
        sel == SelectSeq(fed, InRange)
    IN  [i \in 1..Len(sel) |-> sel[i][2]]

IsAbsentCall == absent_run' = absent_run + 1 /\ n_finalize' = n_finalize

IsFinalizeCall == n_finalize' = n_finalize + 1

----------------------------------------------------------------------------
(* C1: with an open segment, an absent call that brings the run of         *)
(* consecutive absent calls to at most max_gap_frames leaves the segment   *)
(* open and scenes untouched; the call that brings the run to              *)
(* max_gap_frames + 1 appends the segment to scenes and clears it.         *)

C1_GapBoundary ==
    [][ (sd.current_scene # None /\ IsAbsentCall) =>
            IF absent_run' > sd.max_gap_frames
            THEN /\ absent_run' = sd.max_gap_frames + 1
                 /\ sd'.scenes = Append(sd.scenes, sd.current_scene[1])
                 /\ sd'.current_scene = None
            ELSE /\ sd'.scenes = sd.scenes
                 /\ sd'.current_scene = sd.current_scene ]_vars

C1_Witness ==
    /\ n_finalize = 0
    /\ sd.max_gap_frames >= 2
    /\ absent_run = sd.max_gap_frames + 1
    /\ Len(sd.scenes) = 1
    /\ sd.current_scene = None

(* C2: max_gap_frames = 3, present at frames 0,1,2, absent at 3,4,5,6:     *)
(* nothing is closed through frame 5, frame 6 closes exactly one segment   *)
(* [0, 2] holding the three samples, and a present frame 7 opens [7, 7]    *)
(* without touching the closed segment.                                    *)

C2_After(k) ==
    /\ sd.max_gap_frames = 3
    /\ n_finalize = 0
    /\ FedFrames = <<0, 1, 2>>
    /\ last_frame = k
    /\ absent_run = k - 2

C2_FirstSegment == SceneSegment(0, 2, FedWithin(0, 2))

C2_Scenario ==
    /\ [](\A k \in 2..5 : C2_After(k) =>
              /\ sd.scenes = <<>>
              /\ sd.current_scene = Some(C2_FirstSegment))
    /\ [](C2_After(6) =>
              /\ sd.scenes = <<C2_FirstSegment>>
              /\ sd.current_scene = None)
    /\ [][ (C2_After(6) /\ last_frame' = 7 /\ Len(fed') = 4) =>
              /\ sd'.scenes = sd.scenes
              /\ sd'.current_scene = Some(SceneSegment(7, 7, <<fed'[4][2]>>)) ]_vars

C2_Witness ==
    /\ sd.max_gap_frames = 3
    /\ n_finalize = 0
    /\ FedFrames = <<0, 1, 2, 7>>
    /\ Len(sd.scenes) = 1
    /\ sd.scenes[1].start_frame = 0
    /\ sd.scenes[1].end_frame = 2
    /\ sd.current_scene # None
    /\ sd.current_scene[1].start_frame = 7

(* C3: finalize with an open segment appends exactly that segment and      *)
(* leaves none open; the samples held by all segments are, in order, the   *)
(* boxes of the calls that carried a valid detection, so once nothing is   *)
(* open the closed segments hold exactly one sample per such call.         *)

C3_FinalizeLosesNothing ==
    /\ [][ (IsFinalizeCall /\ sd.current_scene # None) =>
              /\ sd'.scenes = Append(sd.scenes, sd.current_scene[1])
              /\ sd'.current_scene = None ]_vars
    /\ [](ConcatBBoxes(AllSegments) = FedBoxes)
    /\ [](sd.current_scene = None => Len(ConcatBBoxes(sd.scenes)) = Len(fed))

C3_Witness ==
    /\ n_finalize = 1
    /\ sd.current_scene = None
    /\ sd.gap_count > 0
    /\ Len(sd.scenes) = 2
    /\ Len(sd.scenes[2].bboxes) >= 2

(* C4: every segment, open or closed, has end_frame >= start_frame, a      *)
(* non-empty sample list of at most end_frame - start_frame + 1 samples,   *)
(* and its samples are those of the valid calls with a frame number in     *)
(* [start_frame, end_frame], in increasing frame order.                    *)

C4_SegmentInvariant ==
    \A i \in 1..Len(AllSegments) :
        LET s == AllSegments[i]
        IN  /\ s.end_frame >= s.start_frame
            /\ s.bboxes # <<>>
            /\ Len(s.bboxes) <= s.end_frame - s.start_frame + 1
            /\ s.bboxes = FedWithin(s.start_frame, s.end_frame)
            /\ \A j \in 1..(Len(fed) - 1) : fed[j][1] < fed[j + 1][1]

C4_Witness ==
    /\ Len(sd.scenes) >= 1
    /\ sd.current_scene # None
    /\ Len(sd.current_scene[1].bboxes) = 2
    /\ sd.current_scene[1].end_frame - sd.current_scene[1].start_frame = 3

(* C5: the segments are chronological and disjoint: each closed segment    *)
(* ends before the next one starts, and the open segment starts after the  *)
(* end of the last closed one.                                             *)

C5_Chronological ==
    \A i \in 1..(Len(AllSegments) - 1) :
        AllSegments[i].end_frame < AllSegments[i + 1].start_frame

C5_Witness ==
    /\ Len(sd.scenes) >= 2
    /\ sd.current_scene # None
    /\ n_finalize = 1

----------------------------------------------------------------------------
(* Derived views of one crop computation *)

Args == crop_args[1]

Out == crop_out[1]

CropReturned == crop_pc = "done" /\ Out.raised = ""

CropWidth == Out.crop[3] - Out.crop[1]

CropHeight == Out.crop[4] - Out.crop[2]

InBounds ==
    /\ 0 <= Out.crop[1] /\ Out.crop[1] < Out.crop[3] /\ Out.crop[3] <= Args.frame_width
    /\ 0 <= Out.crop[2] /\ Out.crop[2] < Out.crop[4] /\ Out.crop[4] <= Args.frame_height

\* <<crop_width, crop_height>> of the current arguments (bbox_height # 0)
ArgsCropSize == crop_size(Args.bbox_width, Args.bbox_height, TargetWidth, TargetHeight)

ArgsCase ==
    boundary_case(Args.frame_width, Args.frame_height, ArgsCropSize[1], ArgsCropSize[2])

ArgsUnclamped ==
    unclamped_crop(Args.frame_width, Args.frame_height, Args.mickey_x, Args.mickey_y,
                   ArgsCropSize[1], ArgsCropSize[2])

\* Some rectangle whose four edges are each within one pixel of the returned
\* ones has exactly the target aspect ratio.
RatioWithinOnePixelPerEdge ==
    /\ (CropWidth - 2) * TargetHeight <= TargetWidth * (CropHeight + 2)
    /\ (CropWidth + 2) * TargetHeight >= TargetWidth * (CropHeight - 2)

RAbsDiff(i, q) ==
    LET diff == RSub(FromInt(i), q) IN IF diff[1] < 0 THEN <<-diff[1], diff[2]>> ELSE diff

(* C6: for every frame of at least 1x1, every centre (inside the frame or  *)
(* not) and every box of positive width and height, the calculator returns *)
(* integers with 0 <= x1 < x2 <= frame_width and 0 <= y1 < y2 <=           *)
(* frame_height.                                                           *)

C6_CropInBounds ==
    (crop_pc = "done" /\ Args.bbox_width > 0 /\ Args.bbox_height > 0) =>
        (Out.raised = "" /\ InBounds)

C6_Witness ==
    /\ CropReturned
    /\ Args.bbox_width > 0 /\ Args.bbox_height > 0
    /\ Args.mickey_x < 0 /\ Args.mickey_y > Args.frame_height
    /\ Args.frame_width > 1
    /\ Out.crop[1] = 0 /\ Out.crop[3] = 1
    /\ Out.crop[4] = Args.frame_height

(* C7: the calculator never fails for a frame of at least 1x1 and a box of *)
(* width and height >= 0, a box of height 0 or width 0 included: it        *)
(* returns an in-bounds, non-degenerate rectangle.  Stated for centres in  *)
(* the frame, where the aggregator puts them.                              *)

C7_NeverFails ==
    (crop_pc = "done" /\ Args.bbox_width >= 0 /\ Args.bbox_height >= 0
        /\ 0 <= Args.mickey_x /\ Args.mickey_x <= Args.frame_width
        /\ 0 <= Args.mickey_y /\ Args.mickey_y <= Args.frame_height) =>
        (Out.raised = "" /\ InBounds)

(* C8: in case (d), on frames of even width and height and for a centre in *)
(* the frame, the crop spans on each axis exactly the frame half that      *)
(* contains the subject centre.                                            *)

C8_HalfFrame ==
    (CropReturned /\ ArgsCase = "d"
        /\ Args.frame_width % 2 = 0 /\ Args.frame_height % 2 = 0
        /\ 0 <= Args.mickey_x /\ Args.mickey_x < Args.frame_width
        /\ 0 <= Args.mickey_y /\ Args.mickey_y < Args.frame_height) =>
        /\ IF 2 * Args.mickey_x < Args.frame_width
           THEN Out.crop[1] = 0 /\ 2 * Out.crop[3] = Args.frame_width
           ELSE 2 * Out.crop[1] = Args.frame_width /\ Out.crop[3] = Args.frame_width
        /\ IF 2 * Args.mickey_y < Args.frame_height
           THEN Out.crop[2] = 0 /\ 2 * Out.crop[4] = Args.frame_height
           ELSE 2 * Out.crop[2] = Args.frame_height /\ Out.crop[4] = Args.frame_height

(* C9, as claimed: in cases (a), (b) and (c), for every centre inside the  *)
(* frame, the returned width/height is the target ratio up to one pixel    *)
(* per edge.                                                               *)

C9_AspectKept ==
    (CropReturned /\ ArgsCase \in {"a", "b", "c"}
        /\ 0 <= Args.mickey_x /\ Args.mickey_x < Args.frame_width
        /\ 0 <= Args.mickey_y /\ Args.mickey_y < Args.frame_height) =>
        RatioWithinOnePixelPerEdge

(* C9, amended: in case (a), when the rectangle centred on the subject     *)
(* lies inside the frame, the returned width and height are within one     *)
(* pixel of crop_width and crop_height, which are in the target ratio, so  *)
(* the returned ratio is the target ratio up to one pixel per edge.        *)

C9_AspectKeptInside ==
    (CropReturned /\ ArgsCase = "a"
        /\ RLe(FromInt(0), ArgsUnclamped[1]) /\ RLe(FromInt(0), ArgsUnclamped[2])
        /\ RLe(ArgsUnclamped[3], FromInt(Args.frame_width))
        /\ RLe(ArgsUnclamped[4], FromInt(Args.frame_height))) =>
        /\ RatioWithinOnePixelPerEdge
        /\ RLe(RAbsDiff(CropWidth, ArgsCropSize[1]), FromInt(1))
        /\ RLe(RAbsDiff(CropHeight, ArgsCropSize[2]), FromInt(1))

C9_Witness ==
    /\ CropReturned
    /\ ArgsCase = "a"
    /\ Args = CropArgs(1920, 1080, 960, 540, 1000, 100)
    /\ Out.crop = <<380, 213, 1540, 866>>

(* C10, as claimed: the aggregate of the samples (0.15, 0.15, 0.1, 0.1)    *)
(* and (0.225, 0.225, 0.15, 0.15) in a 1000x1000 frame is centre           *)
(* (200, 200), width 216, height 216.                                      *)

C10_ExampleScene ==
    scene_in = Some([scene |-> SceneSegment(0, 1, << <<150, 150, 100, 100>>,
                                                     <<225, 225, 150, 150>> >>),
                     frame_width |-> 1000, frame_height |-> 1000])

C10_Example216 ==
    (C10_ExampleScene /\ scene_bbox # None) => scene_bbox[1] = <<200, 200, 216, 216>>

(* C10, amended: that aggregate is centre (200, 200), width 232, height    *)
(* 232: the union extent of 200 grown by 8% on each side of each axis.     *)

C10_Example232 ==
    (C10_ExampleScene /\ scene_bbox # None) => scene_bbox[1] = <<200, 200, 232, 232>>

C10_Witness == C10_ExampleScene /\ scene_bbox # None /\ crop_pc = "done"


----------------------------------------------------------------------------
(* C17: a 100x100 box centred at (960, 540) in a 1920x1080 frame takes     *)
(* case (a) and the result is the truncation of the unclamped rectangle    *)
(* centred on (960, 540) of height 116 and width 116 * 16 / 9, that is     *)
(* (856, 482, 1063, 598), on every call.                                    *)

C17_Example == crop_args = Some(CropArgs(1920, 1080, 960, 540, 100, 100))

C17_CaseAExample ==
    (C17_Example /\ crop_pc = "done") =>
        /\ Out.raised = ""
        /\ ArgsCase = "a"
        /\ ArgsCropSize = <<Rat(116 * 16, 9), FromInt(116)>>
        /\ Out.crop = <<int(ArgsUnclamped[1]), int(ArgsUnclamped[2]),
                        int(ArgsUnclamped[3]), int(ArgsUnclamped[4])>>
        /\ Out.crop = <<856, 482, 1063, 598>>

C17_Witness == C17_Example /\ CropReturned

----------------------------------------------------------------------------
(* C18: a call with a valid detection at frame f leaves scenes unchanged   *)
(* and the gap counter at 0; with no segment open it opens [f, f] with     *)
(* exactly that sample; with a segment open it moves end_frame to f and    *)
(* appends that one sample, start_frame and the earlier samples unchanged. *)

IsValidCall == Len(fed') = Len(fed) + 1

C18_PresentStep ==
    [][ IsValidCall =>
          LET f == last_frame'
              box == fed'[Len(fed')][2]
          IN  /\ sd'.scenes = sd.scenes
              /\ sd'.gap_count = 0
              /\ IF sd.current_scene = None
                 THEN sd'.current_scene = Some(SceneSegment(f, f, <<box>>))
                 ELSE /\ sd'.current_scene # None
                      /\ sd'.current_scene[1].start_frame = sd.current_scene[1].start_frame
                      /\ sd'.current_scene[1].end_frame = f
                      /\ sd'.current_scene[1].bboxes =
                             Append(sd.current_scene[1].bboxes, box) ]_vars

C18_Witness ==
    /\ sd.current_scene # None
    /\ Len(sd.current_scene[1].bboxes) = 3
    /\ sd.current_scene[1].end_frame = last_frame
    /\ Len(sd.scenes) = 1
    /\ absent_run = 0

(* C19: a call without a valid detection (None, or a confidence below      *)
(* min_confidence) while no segment is open changes nothing of the         *)
(* detector: no open segment, same gap counter, same scenes.               *)

C19_AbsentIdleNoOp ==
    [][ (IsAbsentCall /\ sd.current_scene = None) => sd' = sd ]_vars

C19_Witness ==
    /\ sd.current_scene = None
    /\ absent_run = 2
    /\ fed = <<>>
    /\ n_finalize = 0

(* C20: scenes only grows by appending: every call leaves the segments     *)
(* already in scenes where they are, with the same start_frame, end_frame  *)
(* and samples.                                                            *)

C20_ScenesAppendOnly ==
    [][ /\ Len(sd'.scenes) >= Len(sd.scenes)
        /\ SubSeq(sd'.scenes, 1, Len(sd.scenes)) = sd.scenes ]_vars

C20_Witness ==
    /\ Len(sd.scenes) = 2
    /\ sd.current_scene # None
    /\ Len(sd.current_scene[1].bboxes) >= 2
    /\ n_finalize = 1


----------------------------------------------------------------------------
(* Views of the decode of one frame *)

DecodeReturned == det_pc \in {"done", "again"}

Dets == detections[1]

ConfThres == thresholds[1].conf_thres

IouThres == thresholds[1].iou_thres

\* The candidates that pass the confidence filter, had every level reshaped
Passing == filtered(concatenate(input_data), ConfThres)

Malformed ==
    { i \in 1..Len(input_data) :
        input_data[i].channels # anchors_per_cell * (5 + num_classes) }

\* Intersection area over union area, 0 for boxes that do not intersect
IoU(box1, box2) ==
    LET w == min(box1[3], box2[3]) - max(box1[1], box2[1])
        h == min(box1[4], box2[4]) - max(box1[2], box2[2])
        area1 == (box1[3] - box1[1]) * (box1[4] - box1[2])
        area2 == (box2[3] - box2[1]) * (box2[4] - box2[2])
    IN  IF w <= 0 \/ h <= 0 THEN FromInt(0)
        ELSE Rat(w * h, area1 + area2 - w * h)

----------------------------------------------------------------------------
(* C12: any two distinct boxes among those extract_detections retains have *)
(* an IoU (intersection area over union area, 0 when disjoint) of at most  *)
(* iou_thres, for every candidate set and threshold.                       *)

----------------------------------------------------------------------------
(* C13: the sort-and-suppress loop run again on its own output, with the   *)
(* same IoU threshold, returns the same boxes, scores and classes in the   *)
(* same order.                                                             *)

----------------------------------------------------------------------------
(* C16: when the trailing dimension of one stride level is not             *)
(* 3 * (5 + 2), extract_detections returns the empty result with           *)
(* num_detections = 0 and raises nothing, also when the other levels of    *)
(* the frame are well-formed.                                              *)

C16_MalformedIsEmpty ==
    (DecodeReturned /\ Malformed # {}) =>
        /\ Dets = EmptyResult
        /\ Dets.num_detections = 0

\* One level is malformed and the other holds predictions above the
\* confidence threshold
C16_Witness ==
    /\ det_pc = "done"
    /\ Cardinality(Malformed) = 1
    /\ Passing # <<>>
    /\ Dets.num_detections = 0


----------------------------------------------------------------------------
(* Views of process_video *)

\* The latest frame of pass 1 was taken as a frame with the subject: it is
\* the end_frame of the open segment
LastFramePresent ==
    /\ sd.current_scene # None
    /\ sd.current_scene[1].end_frame = last_frame

LabelLinesRead == label_file[1][1]

WellFormed == label_file[1] # None /\ \A i \in 1..Len(LabelLinesRead) : Len(LabelLinesRead[i]) = 6

\* Confidences of the label-0 lines of the file
Class0Scores ==
    { LabelLinesRead[i][6] : i \in { k \in 1..Len(LabelLinesRead) : LabelLinesRead[k][1] = 0 } }

PassTwoStarted == pv_pc \in {"pass2", "released", "crashed"}

\* The output frames made from the frames of a scene
FramesOf(scene) ==
    { i \in 1..Len(out) : /\ scene.start_frame <= out[i].frame_number
                          /\ out[i].frame_number <= scene.end_frame }

----------------------------------------------------------------------------
(* C11: in pass 2 every frame whose number lies in [start_frame,           *)
(* end_frame] of a closed scene is cropped, and all frames of one scene    *)
(* with one and the same rectangle.                                        *)

C11_OneCropPerScene ==
    PassTwoStarted =>
        \A k \in 1..Len(sd.scenes) :
            \A i, j \in FramesOf(sd.scenes[k]) :
                /\ out[i].crop # None
                /\ out[i].crop = out[j].crop

\* A scene of at least three frames whose samples are not all the same box,
\* fully replayed
C11_Witness ==
    /\ pv_pc = "released"
    /\ \E k \in 1..Len(sd.scenes) :
        /\ Cardinality(FramesOf(sd.scenes[k])) >= 3
        /\ \E a, b \in 1..Len(sd.scenes[k].bboxes) :
                sd.scenes[k].bboxes[a] # sd.scenes[k].bboxes[b]
    /\ \E i \in 1..Len(out) : out[i].crop = None

----------------------------------------------------------------------------
(* C14: the detection given to process_frame for a frame is the            *)
(* highest-score label-0 entry of its label file, so the frame counts as   *)
(* present exactly when that highest score is >= min_confidence, also      *)
(* when a low-score label-0 line precedes one with a sufficient score.     *)

C14_HighestScoreDecides ==
    (pv_pc = "pass1" /\ label_file # None /\ WellFormed) =>
        (LastFramePresent <=> \E s \in Class0Scores : s >= sd.min_confidence)


----------------------------------------------------------------------------
(* C15: in detect_scenes a frame whose preprocessing, wait for the         *)
(* inference result or decode fails is still given to the segmenter, as a  *)
(* frame without the subject and under the next frame number, and the      *)
(* pass goes on.                                                           *)

FailedOutcomes == {"preprocess_failed", "timeout", "none_result", "decode_failed"}

C15_FailedFrameIsGapFrame ==
    \A i \in 1..Len(vd_log) :
        vd_log[i].outcome \in FailedOutcomes => vd_log[i].fed_as = i - 1


----------------------------------------------------------------------------
(* C26: after any sequence of process_frame and finalize calls, the gap    *)
(* counter is 0 whenever no segment is open, in particular after finalize  *)
(* closed a segment with pending gap frames.                               *)

C26_GapZeroWhenIdle == sd.current_scene = None => sd.gap_count = 0


----------------------------------------------------------------------------
(* C21: with process_frame called once per consecutive frame (pass 1 of    *)
(* process_video), two present frames with no present frame between them   *)
(* lie in the same segment iff at most max_gap_frames absent frames        *)
(* separate them; so no absent run inside a segment is longer than         *)
(* max_gap_frames, every segment starts and ends on a present frame, and   *)
(* successive segments are more than max_gap_frames absent frames apart.   *)

SameSegment(a, b) ==
    \E k \in 1..Len(AllSegments) :
        AllSegments[k].start_frame <= a /\ b <= AllSegments[k].end_frame

IsPresentFrame(f) == \E i \in 1..Len(fed) : fed[i][1] = f

C21_MaximalSpans ==
    /\ \A j \in 1..(Len(fed) - 1) :
            SameSegment(fed[j][1], fed[j + 1][1])
                <=> fed[j + 1][1] - fed[j][1] - 1 <= sd.max_gap_frames
    /\ \A k \in 1..Len(AllSegments) :
            /\ IsPresentFrame(AllSegments[k].start_frame)
            /\ IsPresentFrame(AllSegments[k].end_frame)
            /\ \A f \in AllSegments[k].start_frame..AllSegments[k].end_frame :
                    \E g \in f..(f + sd.max_gap_frames) : IsPresentFrame(g)
    /\ \A k \in 1..(Len(AllSegments) - 1) :
            AllSegments[k + 1].start_frame - AllSegments[k].end_frame - 1
                > sd.max_gap_frames

\* Two segments exactly max_gap_frames + 1 absent frames apart
C21_Witness ==
    /\ Len(sd.scenes) = 2
    /\ sd.scenes[2].start_frame - sd.scenes[1].end_frame - 1 = sd.max_gap_frames + 1
    /\ Len(fed) = 2


----------------------------------------------------------------------------
(* C22: pass 2 of process_video writes exactly one output frame for every  *)
(* frame number of the video: the crop made from the scene's aggregate     *)
(* when the frame lies in [start_frame, end_frame] of a closed scene of    *)
(* pass 1, the whole frame otherwise; no scene is skipped and no crop is   *)
(* applied outside its scene.                                              *)

VideoEnded == pv_pc \in {"released", "crashed"}

\* The scenes that hold frame f (at most one)
ScenesWith(f) ==
    { k \in 1..Len(sd.scenes) :
        sd.scenes[k].start_frame <= f /\ f <= sd.scenes[k].end_frame }

C22_OneOutputPerFrame ==
    VideoEnded =>
        /\ Len(out) = n_frames
        /\ \A i \in 1..Len(out) :
            /\ out[i].frame_number = i - 1
            /\ (out[i].crop # None) <=> (ScenesWith(i - 1) # {})
            /\ \A k \in ScenesWith(i - 1) :
                    out[i].crop = Some(scene_crop(sd.scenes[k], i - 1,
                                                  frame_size[1], frame_size[2]).crop)


----------------------------------------------------------------------------
(* C23: on the scene path the 8% enlargement is applied twice.             *)
(* calculate_scene_bbox returns the union extent times 1.16, truncated to  *)
(* an integer, and calculate_crop_coordinates enlarges that value by 1.16  *)
(* again to size the crop; on the direct path the raw box is enlarged      *)
(* once.                                                                   *)

ScenePath == scene_in # None /\ crop_pc \in {"crop", "done"}

DirectPath == scene_in = None /\ crop_pc = "done"

\* Extent of the union of the samples of the scene: k = 1 width, k = 2 height
UnionExtent(k) ==
    LET in == scene_in[1]
        corners == [i \in 1..Len(in.scene.bboxes) |->
                        abs_corner(in.scene.bboxes[i], in.frame_width, in.frame_height)]
    IN  RSub(corner_max(corners, k + 2), corner_min(corners, k))

Factor == Rat(116, 100)

\* The box the crop is sized from is 1.16 times the box passed in
SizedFromEnlarged ==
    Out.raised = "" =>
        \/ ArgsCropSize[1] = RMul(Factor, FromInt(Args.bbox_width))
        \/ ArgsCropSize[2] = RMul(Factor, FromInt(Args.bbox_height))

C23_ExpandedTwice ==
    /\ ScenePath =>
        /\ scene_bbox[1][3] = int(RMul(Factor, UnionExtent(1)))
        /\ scene_bbox[1][4] = int(RMul(Factor, UnionExtent(2)))
        /\ Args.bbox_width = scene_bbox[1][3]
        /\ Args.bbox_height = scene_bbox[1][4]
        /\ \A k \in 1..2 :
            LET twice == RMul(Factor, RMul(Factor, UnionExtent(k)))
                used == expanded(scene_bbox[1][k + 2])
            IN  RLe(used, twice) /\ RLt(RSub(twice, Factor), used)
        /\ crop_pc = "done" => SizedFromEnlarged
    /\ DirectPath => SizedFromEnlarged

\* A scene of two different samples whose enlarged union is cut to an
\* integer, cropped without error
C23_Witness ==
    /\ ScenePath
    /\ CropReturned
    /\ Len(scene_in[1].scene.bboxes) = 2
    /\ FromInt(scene_bbox[1][3]) # RMul(Factor, UnionExtent(1))
    /\ scene_bbox[1][4] > 0


----------------------------------------------------------------------------
(* C27: in boundary case (d) the rectangle returned by                     *)
(* calculate_crop_coordinates is the whole frame                           *)
(* (0, 0, frame_width, frame_height) wherever the subject centre is,       *)
(* because each selected half is (frame dimension / 2) * 2.                *)

----------------------------------------------------------------------------
(* C28: when frame_width / frame_height equals target_width /              *)
(* target_height, the crop width exceeds the frame width iff the crop      *)
(* height exceeds the frame height (in exact arithmetic), so only the      *)
(* boundary cases (a) and (d) occur.                                       *)

FrameHasTargetRatio ==
    Args.frame_width * TargetHeight = Args.frame_height * TargetWidth

C28_OnlyCasesAD ==
    (crop_pc = "done" /\ Out.raised = "" /\ FrameHasTargetRatio) =>
        /\ RLt(FromInt(Args.frame_width), ArgsCropSize[1])
                <=> RLt(FromInt(Args.frame_height), ArgsCropSize[2])
        /\ ArgsCase \in {"a", "d"}

\* A 3840x2160 frame and a box too large for it on both axes
C28_Witness ==
    /\ CropReturned
    /\ Args.frame_width = 3840
    /\ Args.frame_height = 2160
    /\ ArgsCase = "d"


----------------------------------------------------------------------------
(* C25: the confidence filter discards only candidates whose best class    *)
(* score is below conf_thres, so when some candidate of a well-formed      *)
(* input scores conf_thres or more (exactly conf_thres included), the      *)
(* best of them reaches suppression and is retained: the result is not     *)
(* empty and its first score is conf_thres or more.                        *)

\* Best class scores of all predictions that are not below conf_thres
ScoresNotBelow ==
    LET z == concatenate(input_data)
    IN  { max_scores(z[i]) : i \in { j \in 1..Len(z) : max_scores(z[j]) >= ConfThres } }

C25_EqualScoreKept ==
    (DecodeReturned /\ Malformed = {} /\ ScoresNotBelow # {}) =>
        /\ Dets.num_detections >= 1
        /\ Dets.detection_scores[1] \in ScoresNotBelow
        /\ \A s \in ScoresNotBelow : s <= Dets.detection_scores[1]


----------------------------------------------------------------------------
(* C29: the inference result detect_scenes takes from output_queue for a   *)
(* frame was computed from that same frame, on every interleaving with the *)
(* inference thread, also after an earlier output_queue.get timed out.     *)

C29_ResultOfSameFrame ==
    \A i \in 1..Len(vd_log) :
        vd_log[i].result_of # -1 => vd_log[i].result_of = vd_log[i].frame

----------------------------------------------------------------------------
(* C30: the frame number a frame is given to the segmenter with equals the *)
(* frame's position in the video, also when preprocessing failed,          *)
(* inference timed out or returned nothing for earlier frames.             *)

C30_NumberIsPosition ==
    \A i \in 1..Len(vd_log) :
        vd_log[i].fed_as # -1 => vd_log[i].fed_as = vd_log[i].frame


----------------------------------------------------------------------------
(* C24: when detect_scenes returns, the segmenter holds no open segment    *)
(* (finalize has closed it), also when an exception was raised inside the  *)
(* frame loop after one or more scenes had been closed.                    *)

C24_NoOpenSegmentOnReturn == vd_pc = "returned" => sd.current_scene = None

====
